---- MODULE Spec2Model ----
(***************************************************************************)
(* Model of tiff_to_npy.py: convert_tif_to_npy (the Converter) and main   *)
(* (the batch driver).                                                     *)
(*                                                                         *)
(* A Python str is a sequence of one-character strings, so that split,     *)
(* basename, dirname, join, glob matching and sorted are computed the way  *)
(* the library computes them.  The file system is a function from paths    *)
(* to file contents; a path outside its domain does not exist.             *)
(***************************************************************************)
EXTENDS Integers, Sequences, FiniteSets, TLC

(***************************************************************************)
(* Bounds of the model.                                                    *)
(***************************************************************************)
\* files present in the file system before the tool starts
MaxFiles == 3
\* top-level operations (direct convert calls, driver runs) in one session
MaxOps == 2
\* number of callers running convert concurrently in SpecPar
NumProcs == 2

(***************************************************************************)
(* Strings.                                                                *)
(***************************************************************************)
\* the characters that occur, in code-point order ('.' < '/' < digits < '_' < letters)
Alphabet == <<".", "/", "0", "1", "2", "3", "4", "5", "6", "7", "8", "9", "_", "a", "b", "c", "d", "e", "f", "g", "h", "i", "j", "k", "l", "m", "n", "o", "p", "q", "r", "s", "t", "u", "v", "w", "x", "y", "z">>

Ord(c) == CHOOSE i \in 1..Len(Alphabet) : Alphabet[i] = c

\* Python's None (no path is this one-element sequence)
None == <<"<None>">>

StartsWith(s, pre) == Len(s) >= Len(pre) /\ SubSeq(s, 1, Len(pre)) = pre

EndsWith(s, suf) == Len(s) >= Len(suf) /\ SubSeq(s, Len(s) - Len(suf) + 1, Len(s)) = suf

\* str.rfind(c) + 1: the position of the last c, 0 when there is none
LastIndex(s, c) == IF \E i \in 1..Len(s) : s[i] = c THEN CHOOSE i \in 1..Len(s) : s[i] = c /\ \A j \in (i+1)..Len(s) : s[j] # c ELSE 0

\* s.rstrip(c)
RECURSIVE RStrip(_, _)
RStrip(s, c) == IF Len(s) > 0 /\ s[Len(s)] = c THEN RStrip(SubSeq(s, 1, Len(s) - 1), c) ELSE s

\* str.split(sep) for a one-character separator
RECURSIVE Split(_, _)
Split(s, sep) ==
    IF \A i \in 1..Len(s) : s[i] # sep
    THEN <<s>>
    ELSE LET k == CHOOSE i \in 1..Len(s) : s[i] = sep /\ \A j \in 1..(i-1) : s[j] # sep
         IN  <<SubSeq(s, 1, k - 1)>> \o Split(SubSeq(s, k + 1, Len(s)), sep)

\* the order of str: code points, left to right, a proper prefix first
LexLess(a, b) ==
    LET n == IF Len(a) < Len(b) THEN Len(a) ELSE Len(b)
        diff == { i \in 1..n : a[i] # b[i] }
    IN  IF diff = {} THEN Len(a) < Len(b)
        ELSE LET k == CHOOSE i \in diff : \A j \in diff : i <= j
             IN  Ord(a[k]) < Ord(b[k])

\* sorted(S) for a set of strings
RECURSIVE sorted(_)
sorted(S) ==
    IF S = {} THEN <<>>
    ELSE LET m == CHOOSE x \in S : \A y \in S \ {x} : LexLess(x, y)
         IN  <<m>> \o sorted(S \ {m})

\* os.path.basename
Basename(path) == SubSeq(path, LastIndex(path, "/") + 1, Len(path))

\* os.path.dirname
Dirname(path) ==
    LET head == SubSeq(path, 1, LastIndex(path, "/"))
    IN  IF head # <<>> /\ \E i \in 1..Len(head) : head[i] # "/" THEN RStrip(head, "/") ELSE head

\* os.path.join(a, b)
Join(a, b) ==
    IF StartsWith(b, <<"/">>) THEN b
    ELSE IF a = <<>> \/ EndsWith(a, <<"/">>) THEN a \o b
    ELSE a \o <<"/">> \o b

(***************************************************************************)
(* Literals of the program.                                                *)
(***************************************************************************)
\* main: the hardcoded source directory
input_dir == <<"/", "s", "c", "r", "a", "t", "c", "h", "/", "0", "9", "2", "9", "5", "/", "n", "a", "v", "e", "e", "n", "s", "/", "d", "o", "w", "n", "s", "c", "a", "l", "e", "_", "l", "a", "t", "e", "n", "t", "_", "e", "n", "s", "e", "m", "b", "l", "e", "/", "g", "o", "o", "g", "l", "e", "_", "e", "m", "b", "e", "d", "d", "i", "n", "g", "s", "_", "a", "u", "s", "t", "i", "n">>

\* main: the two literal parts of the pattern "austin_*_800m.tif"
glob_head == <<"a", "u", "s", "t", "i", "n", "_">>

glob_tail == <<"_", "8", "0", "0", "m", ".", "t", "i", "f">>

\* fnmatch of a directory entry against austin_*_800m.tif: the star matches any
\* run of characters, the empty one included
GlobMatch(name) ==
    /\ Len(name) >= Len(glob_head) + Len(glob_tail)
    /\ StartsWith(name, glob_head)
    /\ EndsWith(name, glob_tail)

\* glob(os.path.join(input_dir, "austin_*_800m.tif")) on file system f
glob(f) == { Join(input_dir, Basename(q)) : q \in { x \in DOMAIN f : Dirname(x) = input_dir /\ GlobMatch(Basename(x)) } }

\* a variant with the year put before "embeddings"
OutputName_YearFirst(year) == <<"a", "u", "s", "t", "i", "n", "_">> \o year \o <<"_", "e", "m", "b", "e", "d", "d", "i", "n", "g", "s", "_", "8", "0", "0", "m", "_", "6", "4", "d", ".", "n", "p", "y">>

\* a variant that leaves the year out
OutputName_NoYear(year) == <<"a", "u", "s", "t", "i", "n", "_", "e", "m", "b", "e", "d", "d", "i", "n", "g", "s", "_", "8", "0", "0", "m", "_", "6", "4", "d", ".", "n", "p", "y">>

\* f"austin_embeddings_{year}_800m_64d.npy"
OutputName(year) == <<"a", "u", "s", "t", "i", "n", "_", "e", "m", "b", "e", "d", "d", "i", "n", "g", "s", "_">> \o year \o <<"_", "8", "0", "0", "m", "_", "6", "4", "d", ".", "n", "p", "y">>

(***************************************************************************)
(* Arrays.  A sample is "nan", "inf", "-inf" or a finite value; "max" and  *)
(* "-max" are the largest and the smallest finite value of the dtype.      *)
(* An array is indexed [band][row][column].                                *)
(***************************************************************************)
\* np.nan_to_num(x, nan=0.0) on one sample: posinf and neginf are left at their
\* defaults, the dtype's largest and smallest finite values
NanToNumScalar(x) ==
    CASE x = "nan" -> "0.0"
      [] x = "inf" -> "max"
      [] x = "-inf" -> "-max"
      [] OTHER -> x

\* np.nan_to_num(data, nan=0.0)
nan_to_num(data) == [b \in DOMAIN data |-> [r \in DOMAIN data[b] |-> [c \in DOMAIN data[b][r] |-> NanToNumScalar(data[b][r][c])]]]

\* the shape [bands, height, width] of an array
Shape(data) == <<Len(data), Len(data[1]), Len(data[1][1])>>

(***************************************************************************)
(* Files.                                                                  *)
(***************************************************************************)
Absent == [kind |-> "absent", data |-> <<>>, complete |-> FALSE]

\* a GeoTIFF the raster backend can open, holding the bands `data`
Tif(data) == [kind |-> "tif", data |-> data, complete |-> TRUE]

\* a file the raster backend cannot open
Corrupt == [kind |-> "corrupt", data |-> <<>>, complete |-> TRUE]

\* the file np.save has opened for writing and not yet filled
NpyPartial == [kind |-> "npy", data |-> <<>>, complete |-> FALSE]

\* the file np.save has written in full
Npy(data) == [kind |-> "npy", data |-> data, complete |-> TRUE]

\* os.path.exists
exists(f, path) == path \in DOMAIN f

Lookup(f, path) == IF path \in DOMAIN f THEN f[path] ELSE Absent

\* f with the file at path set to content
Put(f, path, content) == [q \in DOMAIN f \cup {path} |-> IF q = path THEN content ELSE f[q]]

(***************************************************************************)
(* The inputs the model draws from.                                        *)
(***************************************************************************)
austin == <<"a", "u", "s", "t", "i", "n">>

dallas == <<"d", "a", "l", "l", "a", "s">>

Prefixes == {austin, dallas}

YearTokens == {<<"2", "0", "2", "3">>, <<"2", "0", "2", "4">>}

Suffixes == {<<"8", "0", "0", "m">>, <<"4", "0", "0", "m">>, <<"v", "2", "_", "8", "0", "0", "m">>}

\* the source filename <prefix>_<year>_<suffix>.tif
MkName(prefix, year, suffix) == prefix \o <<"_">> \o year \o <<"_">> \o suffix \o <<".", "t", "i", "f">>

\* a filename without any underscore, and one with a single underscore
data_tif == <<"d", "a", "t", "a", ".", "t", "i", "f">>

austin_2023_tif == <<"a", "u", "s", "t", "i", "n", "_", "2", "0", "2", "3", ".", "t", "i", "f">>

\* a filename whose second token is no year
austin_abc_800m_tif == MkName(austin, <<"a", "b", "c">>, <<"8", "0", "0", "m">>)

Names == { MkName(p, y, s) : p \in Prefixes, y \in YearTokens, s \in Suffixes } \cup {data_tif, austin_2023_tif, austin_abc_800m_tif}

\* a second source directory, and an output directory
other_dir == <<"/", "d", "a", "t", "a", "/", "t", "x", "_", "2", "0", "2", "2">>

out_dir == <<"/", "o", "u", "t">>

austin_2023_800m_tif == MkName(austin, <<"2", "0", "2", "3">>, <<"8", "0", "0", "m">>)

austin_2024_800m_tif == MkName(austin, <<"2", "0", "2", "4">>, <<"8", "0", "0", "m">>)

austin_2025_800m_tif == MkName(austin, <<"2", "0", "2", "5">>, <<"8", "0", "0", "m">>)

austin_2023_v2_800m_tif == MkName(austin, <<"2", "0", "2", "3">>, <<"v", "2", "_", "8", "0", "0", "m">>)

\* the files that may lie in input_dir before a run of main
BatchPaths == { Join(input_dir, n) : n \in {austin_2023_800m_tif, austin_2023_v2_800m_tif, austin_2024_800m_tif, austin_2025_800m_tif, data_tif} }

\* the source files that may lie on disk before a session of direct calls and runs
SeqPaths == {Join(input_dir, austin_2023_800m_tif), Join(input_dir, austin_2023_v2_800m_tif), Join(other_dir, austin_2023_800m_tif)}

\* the band [[NaN, 1.5], [2.0, NaN]], and two bands of one row with infinities
RasterNaN == << << <<"nan", "1.5">>, <<"2.0", "nan">> >> >>

RasterInf == << << <<"inf", "-inf">> >>, << <<"0.0", "nan">> >> >>

Rasters == {RasterNaN, RasterInf}

SourceContents == { Tif(r) : r \in Rasters } \cup {Corrupt}

\* the contents of the files of a run of main: one raster, or unreadable
BatchContents == {Tif(RasterNaN), Corrupt}

\* the arguments of a direct call in the sessions of Spec
CallPaths == SeqPaths

\* the arguments of a direct call in the sessions of SpecNames
NamedPaths == { Join(input_dir, n) : n \in Names } \cup {Join(other_dir, austin_2023_800m_tif)}

OutputDirs == {None, out_dir}

Procs == 1..NumProcs

\* the thread main and a sequential caller run on
Main == 1

(***************************************************************************)
(* State.                                                                  *)
(***************************************************************************)
VARIABLES
    fs,        \* the file system: path -> file
    cv,        \* per caller, the frame of its convert_tif_to_npy call
    drv,       \* the frame of main
    created,   \* history: path -> how many times np.save opened it for writing
    prev,      \* history: the arguments and output_file of the call before
    nops       \* top-level operations started

vars == <<fs, cv, drv, created, prev, nops>>

IdleFrame == [pc |-> "idle", tif_file |-> None, arg_dir |-> None, basename |-> <<>>, year |-> <<>>, output_dir |-> None, output_file |-> None, data |-> <<>>, handle |-> "none", io |-> <<>>, ret |-> None, exc |-> "", pre |-> Absent, fault |-> "none"]

IdleDriver == [pc |-> "idle", tif_files |-> <<>>, i |-> 0, converted_files |-> <<>>, errors |-> <<>>, called |-> <<>>, summary |-> <<>>]

NoPrev == [tif_file |-> None, basename |-> <<>>, year |-> <<>>, output_dir |-> None, output_file |-> None, outcome |-> "none", wrote |-> FALSE]

Finished(f) == f.pc \in {"returned", "raised"}

\* what a finished or idle frame leaves in `prev` when the next call starts
Remember(f) == IF f.pc = "idle" THEN NoPrev ELSE [tif_file |-> f.tif_file, basename |-> f.basename, year |-> f.year, output_dir |-> f.output_dir, output_file |-> f.output_file, outcome |-> f.pc, wrote |-> \E k \in 1..Len(f.io) : f.io[k] = "create"]

(***************************************************************************)
(* convert_tif_to_npy.                                                     *)
(***************************************************************************)
\* a variant that takes the first token
Year_First(basename) == Split(basename, "_")[1]

\* basename.split('_')[1]
Year(basename) == Split(basename, "_")[2]

\* output_dir after the default is applied
OutputDir(tif_file, output_dir) == IF output_dir = None THEN Dirname(tif_file) ELSE output_dir

\* os.path.join(output_dir, f"austin_embeddings_{year}_800m_64d.npy")
OutputFile(tif_file, output_dir) == Join(OutputDir(tif_file, output_dir), OutputName(Year(Basename(tif_file))))

\* a variant that takes the last token for the year and so never raises
Enter_LastToken(f, tif_file, output_dir) ==
    LET tokens == Split(Basename(tif_file), "_")
        out == Join(OutputDir(tif_file, output_dir), OutputName(tokens[Len(tokens)]))
    IN  [IdleFrame EXCEPT !.pc = "check", !.tif_file = tif_file, !.arg_dir = output_dir,
                          !.basename = Basename(tif_file), !.year = tokens[Len(tokens)],
                          !.output_dir = OutputDir(tif_file, output_dir),
                          !.output_file = out, !.pre = Lookup(f, out)]

\* The frame after the function's first statements, up to the derivation of
\* output_file: an IndexError when the basename has no second token.
Enter(f, tif_file, output_dir) ==
    IF Len(Split(Basename(tif_file), "_")) < 2
    THEN [IdleFrame EXCEPT !.pc = "raised", !.exc = "IndexError", !.tif_file = tif_file, !.arg_dir = output_dir, !.basename = Basename(tif_file)]
    ELSE [IdleFrame EXCEPT !.pc = "check", !.tif_file = tif_file, !.arg_dir = output_dir,
                           !.basename = Basename(tif_file), !.year = Year(Basename(tif_file)),
                           !.output_dir = OutputDir(tif_file, output_dir),
                           !.output_file = OutputFile(tif_file, output_dir),
                           !.pre = Lookup(f, OutputFile(tif_file, output_dir))]

\* an exception that leaves the function outside the with block
Raise(frame, e, fault) == [frame EXCEPT !.pc = "raised", !.exc = e, !.fault = fault]

\* a variant that leaves the dataset open when an exception passes through
RaiseInWith_Leak(frame, e, fault) == [frame EXCEPT !.pc = "raised", !.exc = e, !.fault = fault]

\* an exception that leaves the function from inside the with block: the
\* context manager closes the dataset on the way out
RaiseInWith(frame, e, fault) == [frame EXCEPT !.pc = "raised", !.exc = e, !.fault = fault, !.handle = "closed", !.io = @ \o <<"close">>]

\* how many times np.save opened path for writing
Count(c, path) == IF path \in DOMAIN c THEN c[path] ELSE 0

\* the call's first statements, shared by every caller
Begin(p, tif_file, output_dir) ==
    /\ cv' = [cv EXCEPT ![p] = Enter(fs, tif_file, output_dir)]
    /\ prev' = Remember(cv[p])

\* a variant that never finds the output
AlreadyConverted_Never(f, frame) == FALSE

\* a variant that looks for the output filename without its directory
AlreadyConverted_NoDir(f, frame) == exists(f, OutputName(frame.year))

\* if os.path.exists(output_file): return output_file
AlreadyConverted(f, frame) == exists(f, frame.output_file)

CheckExists(p) ==
    /\ cv[p].pc = "check"
    /\ cv' = [cv EXCEPT ![p] = IF AlreadyConverted(fs, cv[p])
                               THEN [@ EXCEPT !.pc = "returned", !.ret = cv[p].output_file, !.io = @ \o <<"exists">>]
                               ELSE [@ EXCEPT !.pc = "open", !.io = @ \o <<"exists">>]]
    /\ UNCHANGED <<fs, drv, created, prev, nops>>

\* with rasterio.open(tif_file) as src
Open(p) ==
    /\ cv[p].pc = "open"
    /\ cv' = [cv EXCEPT ![p] = IF Lookup(fs, cv[p].tif_file).kind = "tif"
                               THEN [@ EXCEPT !.pc = "read", !.handle = "open", !.io = @ \o <<"open">>]
                               ELSE Raise([@ EXCEPT !.io = @ \o <<"open">>], "RasterioIOError", "none")]
    /\ UNCHANGED <<fs, drv, created, prev, nops>>

\* src.count, src.height, src.width; data = src.read(); or the read fails
\* (an I/O error of the environment), and the exception leaves the with block
Read(p) ==
    /\ cv[p].pc = "read"
    /\ \/ cv' = [cv EXCEPT ![p] = [@ EXCEPT !.pc = "clean", !.data = fs[cv[p].tif_file].data, !.io = @ \o <<"read">>]]
       \/ cv' = [cv EXCEPT ![p] = RaiseInWith([@ EXCEPT !.io = @ \o <<"read">>], "RasterioIOError", "read")]
    /\ UNCHANGED <<fs, drv, created, prev, nops>>

\* data = np.nan_to_num(data, nan=0.0); or the copy cannot be allocated
Clean(p) ==
    /\ cv[p].pc = "clean"
    /\ \/ cv' = [cv EXCEPT ![p] = [@ EXCEPT !.pc = "stats", !.data = nan_to_num(@)]]
       \/ cv' = [cv EXCEPT ![p] = RaiseInWith(@, "MemoryError", "clean")]
    /\ UNCHANGED <<fs, drv, created, prev, nops>>

\* data.min(), data.max(), data.mean(), data.std(): printed only, data is
\* left as it is; or a temporary cannot be allocated
Stats(p) ==
    /\ cv[p].pc = "stats"
    /\ \/ cv' = [cv EXCEPT ![p] = [@ EXCEPT !.pc = "exit"]]
       \/ cv' = [cv EXCEPT ![p] = RaiseInWith(@, "MemoryError", "stats")]
    /\ UNCHANGED <<fs, drv, created, prev, nops>>

\* the end of the with block
ExitWith(p) ==
    /\ cv[p].pc = "exit"
    /\ cv' = [cv EXCEPT ![p] = [@ EXCEPT !.pc = "save", !.handle = "closed", !.io = @ \o <<"close">>]]
    /\ UNCHANGED <<fs, drv, created, prev, nops>>

\* np.save(output_file, data), first half: the file is opened for writing
\* (created, or truncated when it exists), or the open fails
SaveOpen(p) ==
    /\ cv[p].pc = "save"
    /\ \/ /\ cv' = [cv EXCEPT ![p] = [@ EXCEPT !.pc = "write", !.io = @ \o <<"create">>]]
          /\ fs' = Put(fs, cv[p].output_file, NpyPartial)
          /\ created' = Put(created, cv[p].output_file, Count(created, cv[p].output_file) + 1)
       \/ /\ cv' = [cv EXCEPT ![p] = Raise(@, "OSError", "create")]
          /\ UNCHANGED <<fs, created>>
    /\ UNCHANGED <<drv, prev, nops>>

\* np.save, second half: header and samples are written and the function
\* prints the size and returns, or the write fails and leaves what was written
SaveWrite(p) ==
    /\ cv[p].pc = "write"
    /\ \/ /\ cv' = [cv EXCEPT ![p] = [@ EXCEPT !.pc = "returned", !.ret = cv[p].output_file, !.io = @ \o <<"write", "getsize">>]]
          /\ fs' = Put(fs, cv[p].output_file, Npy(cv[p].data))
       \/ /\ cv' = [cv EXCEPT ![p] = Raise([@ EXCEPT !.io = @ \o <<"write">>], "OSError", "write")]
          /\ UNCHANGED fs
    /\ UNCHANGED <<drv, created, prev, nops>>

\* one step of the call of caller p
Step(p) == CheckExists(p) \/ Open(p) \/ Read(p) \/ Clean(p) \/ Stats(p) \/ ExitWith(p) \/ SaveOpen(p) \/ SaveWrite(p)

\* A whole call run alone on file system f: the file system it leaves, given
\* the step at which the environment failed it (fault), if any.
SeqConvert(f, tif_file, output_dir, fault) ==
    IF Len(Split(Basename(tif_file), "_")) < 2 THEN f
    ELSE IF exists(f, OutputFile(tif_file, output_dir)) THEN f
    ELSE IF Lookup(f, tif_file).kind # "tif" THEN f
    ELSE IF fault \in {"read", "clean", "stats", "create"} THEN f
    ELSE IF fault = "write" THEN Put(f, OutputFile(tif_file, output_dir), NpyPartial)
    ELSE Put(f, OutputFile(tif_file, output_dir), Npy(nan_to_num(f[tif_file].data)))

(***************************************************************************)
(* Callers: a direct call of convert_tif_to_npy, and main.                 *)
(***************************************************************************)
\* nothing is running on the main thread
SeqReady ==
    /\ drv.pc \in {"idle", "nofiles", "done"}
    /\ cv[Main].pc = "idle" \/ Finished(cv[Main])
    /\ nops < MaxOps

\* a caller other than main calls convert_tif_to_npy(tif_file, output_dir)
Call(tif_file, output_dir) ==
    /\ SeqReady
    /\ Begin(Main, tif_file, output_dir)
    /\ nops' = nops + 1
    /\ UNCHANGED <<fs, drv, created>>

\* main up to the loop: the listing, and the early return when it is empty
DriverStart ==
    /\ SeqReady
    /\ drv' = IF glob(fs) = {}
              THEN [IdleDriver EXCEPT !.pc = "nofiles"]
              ELSE [IdleDriver EXCEPT !.pc = "loop", !.tif_files = sorted(glob(fs)), !.i = 1]
    /\ nops' = nops + 1
    /\ UNCHANGED <<fs, cv, created, prev>>

\* for tif_file in tif_files: try: convert_tif_to_npy(tif_file)
DriverCall ==
    /\ drv.pc = "loop"
    /\ drv.i <= Len(drv.tif_files)
    /\ Begin(Main, drv.tif_files[drv.i], None)
    /\ drv' = [drv EXCEPT !.pc = "call", !.called = @ \o <<drv.tif_files[drv.i]>>]
    /\ UNCHANGED <<fs, created, nops>>

\* converted_files.append(output_file)
DriverReturn ==
    /\ drv.pc = "call"
    /\ cv[Main].pc = "returned"
    /\ drv' = [drv EXCEPT !.pc = "loop", !.i = @ + 1, !.converted_files = @ \o <<cv[Main].ret>>]
    /\ UNCHANGED <<fs, cv, created, prev, nops>>

\* a variant without the try: the exception ends the run
DriverExcept_Abort ==
    /\ drv.pc = "call"
    /\ cv[Main].pc = "raised"
    /\ drv' = [drv EXCEPT !.pc = "done", !.errors = @ \o <<[tif_file |-> cv[Main].tif_file, exc |-> cv[Main].exc]>>]
    /\ UNCHANGED <<fs, cv, created, prev, nops>>

\* except Exception as e: print(f"  Error: {e}")
DriverExcept ==
    /\ drv.pc = "call"
    /\ cv[Main].pc = "raised"
    /\ drv' = [drv EXCEPT !.pc = "loop", !.i = @ + 1, !.errors = @ \o <<[tif_file |-> cv[Main].tif_file, exc |-> cv[Main].exc]>>]
    /\ UNCHANGED <<fs, cv, created, prev, nops>>

\* the summary: the count, and each converted file's basename
DriverSummary ==
    /\ drv.pc = "loop"
    /\ drv.i > Len(drv.tif_files)
    /\ drv' = [drv EXCEPT !.pc = "done", !.summary = <<[count |-> Len(drv.converted_files), files |-> [k \in DOMAIN drv.converted_files |-> Basename(drv.converted_files[k])]]>>]
    /\ UNCHANGED <<fs, cv, created, prev, nops>>

\* a caller's thread p calls convert_tif_to_npy while other calls are running:
\* on a source no other call was given, with the same output directory
ParCall(p, tif_file, output_dir) ==
    /\ cv[p].pc = "idle"
    /\ \A q \in Procs \ {p} : cv[q].pc # "idle" => /\ cv[q].tif_file # tif_file
                                                  /\ OutputDir(cv[q].tif_file, cv[q].arg_dir) = OutputDir(tif_file, output_dir)
    /\ Begin(p, tif_file, output_dir)
    /\ UNCHANGED <<fs, drv, created, nops>>

(***************************************************************************)
(* Specifications.                                                         *)
(***************************************************************************)
\* the file systems with at most k source files
FileSystems(paths, contents, k) == UNION { [S -> contents] : S \in { T \in SUBSET paths : Cardinality(T) <= k } }

Start ==
    /\ cv = [p \in Procs |-> IdleFrame]
    /\ drv = IdleDriver
    /\ created = [q \in {} |-> 0]
    /\ prev = NoPrev
    /\ nops = 0

\* Sequential sessions: direct calls and runs of main, one after the other.
Init == fs \in FileSystems(SeqPaths, SourceContents, MaxFiles) /\ Start

Next ==
    \/ \E tif_file \in CallPaths, output_dir \in OutputDirs : Call(tif_file, output_dir)
    \/ DriverStart
    \/ DriverCall
    \/ DriverReturn
    \/ DriverExcept
    \/ DriverSummary
    \/ Step(Main)

Spec == Init /\ [][Next]_vars

\* Runs of main alone.
InitBatch == fs \in FileSystems(BatchPaths, BatchContents, MaxFiles) /\ Start

NextBatch ==
    \/ DriverStart
    \/ DriverCall
    \/ DriverReturn
    \/ DriverExcept
    \/ DriverSummary
    \/ Step(Main)

SpecBatch == InitBatch /\ [][NextBatch]_vars

\* Sequential direct calls over the whole set of filenames.
InitNames == fs \in FileSystems({Join(input_dir, austin_2023_800m_tif)}, SourceContents, MaxFiles) /\ Start

NextNames ==
    \/ \E tif_file \in NamedPaths, output_dir \in OutputDirs : Call(tif_file, output_dir)
    \/ Step(Main)

SpecNames == InitNames /\ [][NextNames]_vars

\* Concurrent calls, one per caller thread.
ParPaths == {Join(input_dir, austin_2023_800m_tif), Join(input_dir, austin_2024_800m_tif), Join(input_dir, austin_2025_800m_tif), Join(other_dir, austin_2023_800m_tif)}

\* the sources of the 2023 files of the two directories differ
ParRaster(path) == IF Dirname(path) = input_dir THEN RasterNaN ELSE RasterInf

\* every source is on disk, at most one of them unreadable
InitPar ==
    /\ \E bad \in { T \in SUBSET ParPaths : Cardinality(T) <= 1 } :
          fs = [q \in ParPaths |-> IF q \in bad THEN Corrupt ELSE Tif(ParRaster(q))]
    /\ Start

NextPar ==
    \/ \E p \in Procs, tif_file \in ParPaths, output_dir \in OutputDirs : ParCall(p, tif_file, output_dir)
    \/ \E p \in Procs : Step(p)

SpecPar == InitPar /\ [][NextPar]_vars

(***************************************************************************)
(* Properties.                                                             *)
(***************************************************************************)
\* the call on the main thread
Cur == cv[Main]

Wrote(frame) == \E k \in 1..Len(frame.io) : frame.io[k] = "create"

\* C1: when a file exists at output_file as convert is called, the call does
\* nothing but the existence check, returns output_file and leaves the file as
\* it was; and of two calls in a row with the same source and output directory
\* at most one writes, the second finding the output of the first.
C1_IdempotentShortCircuit ==
    /\ Cur.pre.kind # "absent" =>
          /\ \/ Cur.pc = "check" /\ Cur.io = <<>>
             \/ Cur.pc = "returned" /\ Cur.ret = Cur.output_file /\ Cur.io = <<"exists">>
          /\ Lookup(fs, Cur.output_file) = Cur.pre
    /\ (Cur.pc # "idle" /\ prev.tif_file = Cur.tif_file /\ prev.output_dir = Cur.output_dir /\ Cur.output_file # None) =>
          /\ ~(prev.wrote /\ Wrote(Cur))
          /\ (prev.wrote \/ prev.outcome = "returned") => Cur.pre.kind # "absent"

\* C1 witness: the second of two calls on one source has returned on finding
\* the array the first one wrote
C1_Witness ==
    /\ Cur.pc = "returned"
    /\ prev.tif_file = Cur.tif_file
    /\ prev.output_dir = Cur.output_dir
    /\ prev.wrote
    /\ prev.outcome = "returned"
    /\ Cur.pre.kind = "npy"
    /\ Cur.pre.complete
    /\ Cur.io = <<"exists">>

\* C4 (as claimed): the array a call persisted has the shape of the source, 0.0
\* where the source held NaN, and the source's value everywhere else,
\* infinities included.
C4_ExactPassThrough ==
    (Cur.pc = "returned" /\ Wrote(Cur)) =>
        LET src == fs[Cur.tif_file].data
            out == fs[Cur.output_file].data
        IN  /\ Shape(out) = Shape(src)
            /\ \A b \in DOMAIN src : \A r \in DOMAIN src[b] : \A c \in DOMAIN src[b][r] :
                  out[b][r][c] = IF src[b][r][c] = "nan" THEN "0.0" ELSE src[b][r][c]

\* C5 (as claimed): once a call has returned or failed, the file at its
\* output_file is either fully written or not there.
C5_NoPartialFile ==
    \A p \in Procs :
        (Finished(cv[p]) /\ cv[p].output_file # None) =>
            \/ ~exists(fs, cv[p].output_file)
            \/ fs[cv[p].output_file].complete

\* C8: no path is opened for writing more than once, and no step removes a
\* file or changes one, except np.save filling the file it has just created.
C8_ArtifactLifecycle ==
    /\ [](\A path \in DOMAIN created : created[path] <= 1)
    /\ [][\A path \in DOMAIN fs :
             /\ path \in DOMAIN fs'
             /\ \/ fs'[path] = fs[path]
                \/ fs[path] = NpyPartial /\ Cur.pc = "write" /\ Cur.output_file = path]_vars

\* C8 witness: a run of main has ended after a call that found an array written
\* earlier in the session, still as it was written
C8_Witness ==
    /\ drv.pc = "done"
    /\ nops = MaxOps
    /\ \E path \in DOMAIN created :
          /\ created[path] = 1
          /\ fs[path].complete
          /\ Cur.output_file = path
          /\ Cur.pre = fs[path]
          /\ Cur.io = <<"exists">>

\* C10: the dataset is open only between rasterio.open and the end of the with
\* block; it is opened right after an existence check that found nothing, is
\* closed before np.save starts, and is closed on every way out of the call.
C10_HandleScoping ==
    /\ Cur.handle = "open" <=> Cur.pc \in {"read", "clean", "stats", "exit"}
    /\ \A k \in 1..Len(Cur.io) :
          /\ Cur.io[k] = "open" => k = 2 /\ Cur.io[1] = "exists" /\ Cur.pre.kind = "absent"
          /\ Cur.io[k] \in {"create", "write"} => \E j \in 1..(k-1) : Cur.io[j] = "close"
          /\ Cur.io[k] = "read" => \A j \in 1..k : Cur.io[j] # "close"
    /\ Cur.handle = "closed" <=> \E k \in 1..Len(Cur.io) : Cur.io[k] = "close"
    /\ Finished(Cur) => Cur.handle # "open"

\* C10 witness: the statistics step raised inside the with block and the
\* dataset is closed
C10_Witness ==
    /\ Cur.pc = "raised"
    /\ Cur.fault = "stats"
    /\ Cur.handle = "closed"
    /\ Cur.io = <<"exists", "open", "read", "close">>

(***************************************************************************)
(* The filename contract, stated without the program's own split.          *)
(***************************************************************************)
HasUnderscore(name) == \E i \in 1..Len(name) : name[i] = "_"

\* the text between the first underscore of name and the next one (or the end)
SecondToken(name) ==
    LET i == CHOOSE k \in 1..Len(name) : name[k] = "_" /\ \A j \in 1..(k-1) : name[j] # "_"
        rest == { k \in (i+1)..Len(name) : name[k] = "_" }
        j == IF rest = {} THEN Len(name) + 1 ELSE CHOOSE k \in rest : \A l \in rest : k <= l
    IN  SubSeq(name, i + 1, j - 1)

\* a year: four digits
IsYear(token) == Len(token) = 4 /\ \A i \in 1..Len(token) : token[i] \in {"0", "1", "2", "3", "4", "5", "6", "7", "8", "9"}

\* the directory the output goes to: the one given, else the source's own
ExpectedDir(frame) == IF frame.arg_dir = None THEN SubSeq(frame.tif_file, 1, Len(frame.tif_file) - Len(frame.basename) - 1) ELSE frame.arg_dir

\* <prefix>_embeddings_<year>_<suffix>_64d.npy
TemplateName(prefix, year, suffix) == prefix \o <<"_", "e", "m", "b", "e", "d", "d", "i", "n", "g", "s", "_">> \o year \o <<"_">> \o suffix \o <<"_", "6", "4", "d", ".", "n", "p", "y">>

Derived(frame) == frame.pc \notin {"idle", "raised"} \/ (frame.pc = "raised" /\ frame.exc # "IndexError")

\* C2 (as claimed): for every source filename <prefix>_<year>_<suffix>.tif the
\* output file is <prefix>_embeddings_<year>_<suffix>_64d.npy in the output
\* directory (by default the source's directory).
C2_TemplateAnyPrefixSuffix ==
    \A prefix \in Prefixes, year \in YearTokens, suffix \in Suffixes :
        (Cur.pc # "idle" /\ Cur.basename = MkName(prefix, year, suffix)) =>
            Cur.output_file = ExpectedDir(Cur) \o <<"/">> \o TemplateName(prefix, year, suffix)

\* C2 (amended): for every source filename <prefix>_<year>_<suffix>.tif the
\* output file is austin_embeddings_<year>_800m_64d.npy in the output directory
\* (by default the source's directory), whatever prefix and suffix are; it is
\* <prefix>_embeddings_<year>_<suffix>_64d.npy exactly when the prefix is
\* austin and the suffix is 800m.
C2_FilenameDerivation ==
    \A prefix \in Prefixes, year \in YearTokens, suffix \in Suffixes :
        (Cur.pc # "idle" /\ Cur.basename = MkName(prefix, year, suffix)) =>
            /\ Cur.output_file = ExpectedDir(Cur) \o <<"/">> \o TemplateName(austin, year, <<"8", "0", "0", "m">>)
            /\ Cur.output_file = ExpectedDir(Cur) \o <<"/">> \o TemplateName(prefix, year, suffix)
                  <=> (prefix = austin /\ suffix = <<"8", "0", "0", "m">>)

\* C2 witness: austin_2023_800m.tif, no output directory given, converted to
\* austin_embeddings_2023_800m_64d.npy beside it
C2_Witness ==
    /\ Cur.pc = "returned"
    /\ Wrote(Cur)
    /\ Cur.arg_dir = None
    /\ Cur.tif_file = input_dir \o <<"/">> \o austin_2023_800m_tif
    /\ Cur.ret = input_dir \o <<"/", "a", "u", "s", "t", "i", "n", "_", "e", "m", "b", "e", "d", "d", "i", "n", "g", "s", "_", "2", "0", "2", "3", "_", "8", "0", "0", "m", "_", "6", "4", "d", ".", "n", "p", "y">>

\* the filenames the claim is about: accepted by austin_*_800m.tif, or of the
\* form <prefix>_<year>_<suffix>.tif
Expected(name) ==
    \/ StartsWith(name, <<"a", "u", "s", "t", "i", "n", "_">>) /\ EndsWith(name, <<"_", "8", "0", "0", "m", ".", "t", "i", "f">>) /\ Len(name) >= 16
    \/ \E prefix \in Prefixes, year \in YearTokens, suffix \in Suffixes : name = MkName(prefix, year, suffix)

\* C3 (as claimed): for a fixed output directory, two distinct source
\* filenames that the filter austin_*_800m.tif accepts or that have the form
\* <prefix>_<year>_<suffix>.tif get distinct output paths.
C3_InjectiveOverAll ==
    (Derived(Cur) /\ prev.output_file # None /\ Cur.output_dir = prev.output_dir
       /\ Cur.basename # prev.basename /\ Expected(Cur.basename) /\ Expected(prev.basename)) =>
        Cur.output_file # prev.output_file

\* C3 (amended): the mapping is deterministic, and for a fixed output
\* directory two source filenames get the same output path exactly when their
\* second underscore-delimited tokens are equal; so distinct names
\* austin_<year>_800m.tif get distinct output paths.
C3_InjectiveOnYear ==
    (Derived(Cur) /\ prev.output_file # None /\ Cur.output_dir = prev.output_dir) =>
        /\ Cur.output_file = prev.output_file <=> SecondToken(Cur.basename) = SecondToken(prev.basename)
        /\ \A y1 \in YearTokens, y2 \in YearTokens :
              (Cur.basename = MkName(austin, y1, <<"8", "0", "0", "m">>) /\ prev.basename = MkName(austin, y2, <<"8", "0", "0", "m">>) /\ y1 # y2)
                  => Cur.output_file # prev.output_file

\* C3 witness: austin_2024_800m.tif called after austin_2023_800m.tif with the
\* same output directory, each with an output path of its own
C3_Witness ==
    /\ Derived(Cur)
    /\ prev.basename = austin_2023_800m_tif
    /\ Cur.basename = austin_2024_800m_tif
    /\ Cur.output_dir = prev.output_dir
    /\ Cur.output_file # prev.output_file

\* C7 (as claimed): a call on a filename without a second token, or whose
\* second token is no year, fails with the malformed-filename error
\* (IndexError) before any file I/O.
C7_RejectsNonYear ==
    (Cur.pc # "idle" /\ (~HasUnderscore(Cur.basename) \/ ~IsYear(SecondToken(Cur.basename)))) =>
        Cur.pc = "raised" /\ Cur.exc = "IndexError" /\ Cur.io = <<>>

\* C7 (amended): a call on a filename without a second token fails with
\* IndexError before any file I/O (no existence check, no open, nothing
\* created) and the error reaches the caller; a filename with a second token
\* is never rejected, whether or not that token is a year.
C7_MalformedFilename ==
    Cur.pc # "idle" =>
        /\ ~HasUnderscore(Cur.basename) =>
              /\ Cur.pc = "raised" /\ Cur.exc = "IndexError"
              /\ Cur.io = <<>> /\ Cur.handle = "none" /\ Cur.output_file = None
        /\ HasUnderscore(Cur.basename) => Cur.exc # "IndexError" /\ Cur.year = SecondToken(Cur.basename)

\* C7 witness: the call on data.tif has raised without any I/O
C7_Witness ==
    /\ Cur.basename = data_tif
    /\ Cur.pc = "raised"
    /\ Cur.exc = "IndexError"
    /\ Cur.io = <<>>

(***************************************************************************)
(* The batch driver.                                                       *)
(***************************************************************************)
Last(seq) == seq[Len(seq)]

\* C6: main calls convert on the candidates in listing order, once each and
\* whatever happened before; a call that raised adds one error for its
\* candidate and nothing else, a call that returned adds its output to the
\* converted files; the run ends only after the last candidate, and the
\* summary counts the calls that returned.
C6_BatchPartialFailure ==
    /\ drv.called = SubSeq(drv.tif_files, 1, Len(drv.called))
    /\ \A i \in 1..(Len(drv.tif_files) - 1) : LexLess(drv.tif_files[i], drv.tif_files[i + 1])
    /\ \A i, j \in 1..Len(drv.errors) : i < j =>
          \E k, l \in 1..Len(drv.called) : k < l /\ drv.called[k] = drv.errors[i].tif_file /\ drv.called[l] = drv.errors[j].tif_file
    /\ drv.pc = "call" =>
          /\ Len(drv.converted_files) + Len(drv.errors) = Len(drv.called) - 1
          /\ Cur.tif_file = Last(drv.called)
    /\ drv.pc \in {"loop", "done"} =>
          /\ Len(drv.converted_files) + Len(drv.errors) = Len(drv.called)
          /\ drv.called # <<>> =>
                /\ Cur.tif_file = Last(drv.called)
                /\ Finished(Cur)
                /\ Cur.pc = "raised" => /\ drv.errors # <<>>
                                        /\ Last(drv.errors) = [tif_file |-> Cur.tif_file, exc |-> Cur.exc]
                /\ Cur.pc = "returned" => /\ drv.converted_files # <<>>
                                          /\ Last(drv.converted_files) = Cur.ret
                                          /\ \A k \in 1..Len(drv.errors) : drv.errors[k].tif_file # Cur.tif_file
    /\ drv.pc = "done" =>
          /\ drv.called = drv.tif_files
          /\ drv.tif_files # <<>>
          /\ Len(drv.summary) = 1
          /\ drv.summary[1].count = Len(drv.tif_files) - Len(drv.errors)
          /\ drv.summary[1].count = Len(drv.converted_files)

\* C6 witness: three candidates, the second unreadable: the run has ended with
\* the first and the third converted and one error, for the second
C6_Witness ==
    /\ drv.pc = "done"
    /\ Len(drv.tif_files) = 3
    /\ fs[drv.tif_files[2]] = Corrupt
    /\ Len(drv.errors) = 1
    /\ drv.errors[1].tif_file = drv.tif_files[2]
    /\ drv.summary[1].count = 2
    /\ drv.converted_files = <<OutputFile(drv.tif_files[1], None), OutputFile(drv.tif_files[3], None)>>
    /\ \A k \in 1..2 : fs[drv.converted_files[k]].complete /\ created[drv.converted_files[k]] = 1

(***************************************************************************)
(* Concurrent callers.                                                     *)
(***************************************************************************)
Started == { p \in Procs : cv[p].pc # "idle" }

\* the orders in which the callers' calls can be run one after the other
Orders == { o \in [1..NumProcs -> Procs] : \A i, j \in 1..NumProcs : i # j => o[i] # o[j] }

\* the file system after the calls are run one at a time in order o, from f
RECURSIVE SeqRun(_, _, _)
SeqRun(f, o, k) ==
    IF k > Len(o) THEN f
    ELSE SeqRun(SeqConvert(f, cv[o[k]].tif_file, cv[o[k]].arg_dir, cv[o[k]].fault), o, k + 1)

\* the files that were there before the calls: every file that is no array
SourcesOf(f) == [q \in { x \in DOMAIN f : f[x].kind # "npy" } |-> f[q]]

\* every file written is the output of a call that wrote it, no file is opened
\* for writing twice, and once all calls have ended the file system is the one
\* every sequential order of the same calls leaves
SameAsSequential ==
    /\ \A path \in DOMAIN created :
          /\ created[path] <= 1
          /\ \E p \in Procs : cv[p].output_file = path /\ Wrote(cv[p])
    /\ (\A p \in Procs : Finished(cv[p])) => \A o \in Orders : fs = SeqRun(SourcesOf(fs), o, 1)

\* C9 (as claimed): concurrent calls on distinct source files with the same
\* output directory behave as the same calls run one after the other.
C9_DistinctSources ==
    (\A p, q \in Started : p # q => cv[p].tif_file # cv[q].tif_file /\ cv[p].output_dir = cv[q].output_dir)
        => SameAsSequential

\* C9 (amended): concurrent calls on source files whose filenames have
\* pairwise distinct second tokens, with the same output directory, behave as
\* the same calls run one after the other.
C9_DistinctYears ==
    (\A p, q \in Started : p # q => SecondToken(cv[p].basename) # SecondToken(cv[q].basename) /\ cv[p].output_dir = cv[q].output_dir)
        => SameAsSequential

\* C9 witness: two calls on sources of different years are both inside
\* np.save, each on the file it created
C9_Witness ==
    /\ \A p \in {1, 2} : cv[p].pc = "write" /\ fs[cv[p].output_file] = NpyPartial
    /\ cv[1].year # cv[2].year
    /\ cv[1].output_dir = cv[2].output_dir
    /\ cv[1].output_file # cv[2].output_file

====
